---- MODULE Spec2Model ----
(***************************************************************************)
(* A model of spaint's SLAMComponent (pipelinecomponents/SLAMComponent.cpp) *)
(* as a state machine: the per-frame control loop run() and the setter      *)
(* set_fusion_enabled().  The tracker, the relocaliser, the dense mapper    *)
(* and the image source are collaborators whose results are drawn from      *)
(* small sets; everything the component itself decides is computed as the   *)
(* code computes it.                                                        *)
(***************************************************************************)
EXTENDS Integers, Sequences, FiniteSets, TLC

(* ------------------------------ bounds --------------------------------- *)

\* Poses are opaque to the component: they are modelled as 0..MaxPose.
MaxPose == 1

\* The relocaliser stops accepting keyframes once it holds this many.
MaxKeyframes == 1

\* run() is no longer called once this many frames have been fused: long sessions, which
\* go past the initialFramesToFuse frames of the warm start, and short ones.
MaxFused == 51
MaxFusedShort == 2

(* ------------------------- program constants --------------------------- *)

\* m_initialFramesToFuse(50)
initialFramesToFuse == 50

\* m_keyframeDelay = 10 after a relocalisation
KEYFRAME_DELAY == 10

\* "no keyframe" / "no nearest neighbour" as returned by the relocaliser
NO_KEYFRAME == -1

TRACKING_GOOD == "GOOD"
TRACKING_POOR == "POOR"
TRACKING_FAILED == "FAILED"
TrackingResult == {TRACKING_GOOD, TRACKING_POOR, TRACKING_FAILED}

FAILUREMODE_RELOCALISE == "RELOCALISE"
FAILUREMODE_STOP_INTEGRATION == "STOP_INTEGRATION"
FAILUREMODE_IGNORE == "IGNORE"
FailureMode == {FAILUREMODE_RELOCALISE, FAILUREMODE_STOP_INTEGRATION, FAILUREMODE_IGNORE}

Poses == 0..MaxPose

(* ------------------------------- state --------------------------------- *)

VARIABLES
  behaviourOnFailure,  \* settings->behaviourOnFailure, fixed for the session
  fusedFramesCount,    \* m_fusedFramesCount
  fusionEnabled,       \* m_fusionEnabled
  keyframeDelay,       \* m_keyframeDelay
  pose_d,              \* trackingState->pose_d
  trackerResult,       \* trackingState->trackerResult
  imageSource,         \* m_imageSourceEngine: "more", "next" or "done"
  keyframes,           \* the keyframe ids the relocaliser has assigned
  poseDatabase,        \* m_poseDatabase: keyframe id -> pose
  scene,               \* the number of frames the dense mapper has fused into the scene
  exhaustionObserved,  \* history: some run() has seen the current sub-engine without images
  cooldown,            \* history: the frames since the last relocalisation (SpecCooldown only)
  last                 \* history: what the last call did

vars == <<behaviourOnFailure, fusedFramesCount, fusionEnabled, keyframeDelay, pose_d,
          trackerResult, imageSource, keyframes, poseDatabase, scene,
          exhaustionObserved, cooldown, last>>

\* Whether the call named c is among the calls made.
Invoked(calls, c) == \E i \in DOMAIN calls : calls[i] = c

\* The record of a call that took none of run()'s decisions.
NoCall(op, ret) ==
  [op |-> op, ret |-> ret, rawResult |-> TRACKING_GOOD, effective |-> TRACKING_GOOD,
   trackedPose |-> 0, considerKeyframe |-> FALSE, keyframeID |-> NO_KEYFRAME, nearestNeighbour |-> NO_KEYFRAME,
   recovered |-> FALSE, lost |-> FALSE, runFusion |-> FALSE, calls |-> <<>>]

(* --------------------------- the image source -------------------------- *)

\* CompositeImageSourceEngine::hasMoreImages(): the current sub-engine or a later one has images.
HasMoreImages(src) == src # "done"

\* getCurrentSubengine()->hasMoreImages(), asked after getImages().
CurrentSubengineHasMoreImages(src) == src = "more"

\* The states getImages() can leave the source in: the sub-engine that delivered the
\* frame has more, or is exhausted with a later sub-engine waiting, or is the last one.
AfterGetImages == {"more", "next", "done"}

(* ------------------------- the component's logic ----------------------- *)

\* Mutant: the camera is tracked on every frame, also before anything has been fused.
TrackOutcomesAlways(count, pose, result) ==
  {[pose |-> p, result |-> r, calls |-> <<"Track">>] : p \in Poses, r \in TrackingResult}

\* if(m_fusedFramesCount > 0) m_trackingController->Track(...): the tracker may leave any
\* pose and any verdict; without a call both are what the previous frame left.
TrackOutcomes(count, pose, result) ==
  IF count > 0
  THEN {[pose |-> p, result |-> r, calls |-> <<"Track">>] : p \in Poses, r \in TrackingResult}
  ELSE {[pose |-> pose, result |-> result, calls |-> <<>>]}

\* Mutant: the frame is considered whenever the delay has run out, whatever the verdict.
ConsiderKeyframeAnyVerdict(result, delay) == delay = 0

\* Mutant: only poor tracking keeps a frame from being considered.
ConsiderKeyframeUnlessPoor(result, delay) == result # TRACKING_POOR /\ delay = 0

\* bool considerKeyframe: tracking is good and the delay has run out.
ConsiderKeyframe(result, delay) == result = TRACKING_GOOD /\ delay = 0

\* Mutant: the delay is counted down on every frame, whatever the verdict.
DelayAfterCandidacyAnyVerdict(result, delay) == IF delay # 0 THEN delay - 1 ELSE delay

\* Mutant: the delay is also counted down on the frames that are considered.
DelayAfterCandidacyUnguarded(result, delay) ==
  IF result = TRACKING_GOOD THEN delay - 1 ELSE delay

\* Mutant: the delay is never counted down.
DelayAfterCandidacyStuck(result, delay) == delay

\* else --m_keyframeDelay
DelayAfterCandidacy(result, delay) ==
  IF result = TRACKING_GOOD /\ delay # 0 THEN delay - 1 ELSE delay

\* Relocaliser::ProcessFrame: the id of a new keyframe (or none), which it may only add
\* when asked to consider the frame; ids are handed out in order.
NewKeyframeIDs(considerKeyframe, ids) ==
  {NO_KEYFRAME} \cup
    (IF considerKeyframe /\ Cardinality(ids) < MaxKeyframes THEN {Cardinality(ids)} ELSE {})

\* Relocaliser::ProcessFrame: the nearest keyframe already in its database, if any.
NearestNeighbours(ids) == {NO_KEYFRAME} \cup ids

\* Mutant: the pose of keyframe 0 is not stored (keyframeID > 0).
StorePoseNotZero(db, keyframeID, pose) ==
  IF keyframeID > 0
  THEN [i \in DOMAIN db \cup {keyframeID} |-> IF i = keyframeID THEN pose ELSE db[i]]
  ELSE db

\* Mutant: a default pose is stored instead of the tracking state's.
StorePoseDefault(db, keyframeID, pose) ==
  IF keyframeID >= 0
  THEN [i \in DOMAIN db \cup {keyframeID} |-> IF i = keyframeID THEN 0 ELSE db[i]]
  ELSE db

\* if(keyframeID >= 0) m_poseDatabase->storePose(keyframeID, *trackingState->pose_d, 0)
StorePose(db, keyframeID, pose) ==
  IF keyframeID >= 0
  THEN [i \in DOMAIN db \cup {keyframeID} |-> IF i = keyframeID THEN pose ELSE db[i]]
  ELSE db

\* Mutant: a relocalisation is attempted whenever tracking was not good.
RecoveryTriggeredUnlessGood(keyframeID, result, nearestNeighbour) ==
  keyframeID < 0 /\ result # TRACKING_GOOD /\ nearestNeighbour # NO_KEYFRAME

\* else if(trackerResult == TRACKING_FAILED && nearestNeighbour != -1)
RecoveryTriggered(keyframeID, result, nearestNeighbour) ==
  keyframeID < 0 /\ result = TRACKING_FAILED /\ nearestNeighbour # NO_KEYFRAME

\* case FAILUREMODE_RELOCALISE: every way the branch can end, given the pose and the
\* verdict the tracker left.
Relocalise(pose, result, delay, ids, db) ==
  LET consider == ConsiderKeyframe(result, delay)
      delay1 == DelayAfterCandidacy(result, delay)
      base == [pose |-> pose, rawResult |-> result, stored |-> result,
               effective |-> result, delay |-> delay1,
               ids |-> ids, db |-> db, considerKeyframe |-> consider,
               keyframeID |-> NO_KEYFRAME, nearestNeighbour |-> NO_KEYFRAME,
               recovered |-> FALSE, calls |-> <<"Relocaliser.ProcessFrame">>]
      Outcomes(kf, nn) ==
        IF kf >= 0
        THEN {[base EXCEPT !.keyframeID = kf, !.nearestNeighbour = nn,
                           !.ids = ids \cup {kf},
                           !.db = StorePose(db, kf, pose),
                           !.calls = @ \o <<"PoseDatabase.storePose">>]}
        ELSE IF RecoveryTriggered(kf, result, nn)
        THEN {[base EXCEPT !.nearestNeighbour = nn, !.recovered = TRUE,
                           !.pose = t.pose, !.stored = t.result, !.effective = t.result,
                           !.delay = KEYFRAME_DELAY,
                           !.calls = @ \o <<"PoseDatabase.retrievePose",
                                            "DenseMapper.UpdateVisibleList(reset)",
                                            "Prepare", "Track">>]
              \* Track is called whatever m_fusedFramesCount is, on the keyframe's pose
              : t \in TrackOutcomes(1, db[nn], result)}
        ELSE {[base EXCEPT !.nearestNeighbour = nn]}
  IN UNION {Outcomes(kf, nn) : kf \in NewKeyframeIDs(consider, ids), nn \in NearestNeighbours(ids)}

\* Mutant: a tracking failure is not downgraded.
StopIntegrationKeepsFailure(result) == result

\* case FAILUREMODE_STOP_INTEGRATION
StopIntegration(result) == IF result = TRACKING_FAILED THEN TRACKING_POOR ELSE result

\* Mutant: the tracker's verdict is kept.
IgnoreKeepsVerdict(result) == result

\* case FAILUREMODE_IGNORE / default
Ignore(result) == TRACKING_GOOD

\* The switch on behaviourOnFailure.
FailurePolicy(mode, pose, result, delay, ids, db) ==
  IF mode = FAILUREMODE_RELOCALISE THEN Relocalise(pose, result, delay, ids, db)
  ELSE {[pose |-> pose, rawResult |-> result, stored |-> result,
         effective |-> IF mode = FAILUREMODE_STOP_INTEGRATION
                       THEN StopIntegration(result) ELSE Ignore(result),
         delay |-> delay, ids |-> ids, db |-> db, considerKeyframe |-> FALSE,
         keyframeID |-> NO_KEYFRAME, nearestNeighbour |-> NO_KEYFRAME,
         recovered |-> FALSE, calls |-> <<>>]}

\* Tracking the camera and determining the tracking quality: every way the two steps can
\* end. (The pose of a failed first track is overwritten by a relocalisation.)
TrackAndResolve(mode, count, pose, result, delay, ids, db) ==
  UNION {{[o EXCEPT !.calls = t.calls \o @]
            : o \in FailurePolicy(mode, t.pose, t.result, delay, ids, db)}
         : t \in TrackOutcomes(count, pose, result)}

\* The nearest neighbour the relocaliser reports only matters to the component when it
\* relocalises: unless the history is kept in full, it is recorded for those frames only.
Observed(history, outcomes) ==
  IF history THEN outcomes
  ELSE {[o EXCEPT !.nearestNeighbour = IF o.recovered THEN @ ELSE NO_KEYFRAME]
          : o \in outcomes}

\* m_fallibleTracker && m_fallibleTracker->lost_tracking(): false without a fallible tracker,
\* and not asked at all (||) when the verdict has already denied fusion.
LostTracking(result, count) ==
  IF \/ result = TRACKING_FAILED
     \/ (result = TRACKING_POOR /\ count >= initialFramesToFuse)
  THEN {FALSE}
  ELSE BOOLEAN

\* Mutant: the gate forgets the m_fusionEnabled flag.
RunFusionIgnoresFlag(enabled, result, count, lost) ==
  ~(\/ result = TRACKING_FAILED
    \/ (result = TRACKING_POOR /\ count >= initialFramesToFuse)
    \/ lost)

\* Mutant: poor tracking denies fusion from the first frame on.
RunFusionNoWarmStart(enabled, result, count, lost) ==
  IF result # TRACKING_GOOD \/ lost THEN FALSE ELSE enabled

\* bool runFusion: the fusion gate.
RunFusion(enabled, result, count, lost) ==
  IF \/ result = TRACKING_FAILED
     \/ (result = TRACKING_POOR /\ count >= initialFramesToFuse)
     \/ lost
  THEN FALSE
  ELSE enabled

\* Mutant: the counter counts every processed frame.
CountAfterEveryFrame(runFusion, count) == count + 1

\* ++m_fusedFramesCount, only when fusing.
CountAfter(runFusion, count) == IF runFusion THEN count + 1 ELSE count

\* m_denseMapper->ProcessFrame(...) fuses the frame into the scene.
SceneAfter(runFusion, sc) == IF runFusion THEN sc + 1 ELSE sc

\* Mutant: the pose is never restored.
PoseAfterNoRollback(runFusion, result, oldPose, pose) == pose

\* Mutant: the pose is restored whenever the frame is not fused.
PoseAfterRollbackUnfused(runFusion, result, oldPose, pose) ==
  IF ~runFusion THEN oldPose ELSE pose

\* *trackingState->pose_d = oldPose, only when not fusing and tracking failed.
PoseAfter(runFusion, result, oldPose, pose) ==
  IF ~runFusion /\ result = TRACKING_FAILED THEN oldPose ELSE pose

\* Mutant: the visible list is updated whenever the frame is not fused.
OutcomeCallsUpdatesUnfused(runFusion, result) ==
  IF runFusion THEN <<"DenseMapper.ProcessFrame">>
  ELSE <<"DenseMapper.UpdateVisibleList">>

\* The dense-mapper call of the if / else if / else.
OutcomeCalls(runFusion, result) ==
  IF runFusion THEN <<"DenseMapper.ProcessFrame">>
  ELSE IF result # TRACKING_FAILED THEN <<"DenseMapper.UpdateVisibleList">>
  ELSE <<>>

\* Mutant: the flag is not cleared when the sub-engine runs out.
FusionEnabledAfterKept(enabled, src) == enabled

\* Mutant: m_fusionEnabled = getCurrentSubengine()->hasMoreImages().
FusionEnabledAfterAssigned(enabled, src) == CurrentSubengineHasMoreImages(src)

\* if(!getCurrentSubengine()->hasMoreImages()) m_fusionEnabled = false
FusionEnabledAfter(enabled, src) ==
  IF ~CurrentSubengineHasMoreImages(src) THEN FALSE ELSE enabled

(* ------------------------------ actions -------------------------------- *)

\* The state the constructor leaves: no frame fused, fusion enabled, no keyframe delay, a
\* fresh tracking state (whose verdict starts as good) with the tracker's initial pose, an
\* empty pose database and relocaliser, and an image source that may already be empty.
Init ==
  /\ behaviourOnFailure \in FailureMode
  /\ fusedFramesCount = 0
  /\ fusionEnabled = TRUE
  /\ keyframeDelay = 0
  /\ pose_d \in Poses
  /\ trackerResult = TRACKING_GOOD
  /\ imageSource \in {"more", "done"}
  /\ keyframes = {}
  /\ poseDatabase = << >>
  /\ scene = 0
  /\ exhaustionObserved = FALSE
  /\ cooldown = [recovered |-> FALSE, good |-> KEYFRAME_DELAY, streak |-> KEYFRAME_DELAY]
  /\ last = NoCall("init", FALSE)

\* Mutant: run() disables fusion before it finds that there is no image.
RunNoImagesDisablesFusion ==
  /\ ~HasMoreImages(imageSource)
  /\ fusionEnabled' = FALSE
  /\ last' = NoCall("run", FALSE)
  /\ UNCHANGED <<behaviourOnFailure, fusedFramesCount, keyframeDelay, pose_d,
                 trackerResult, imageSource, keyframes, poseDatabase, scene,
                 exhaustionObserved, cooldown>>

\* run() when the image source has nothing left.
RunNoImages ==
  /\ ~HasMoreImages(imageSource)
  /\ last' = NoCall("run", FALSE)
  /\ UNCHANGED <<behaviourOnFailure, fusedFramesCount, fusionEnabled, keyframeDelay, pose_d,
                 trackerResult, imageSource, keyframes, poseDatabase, scene,
                 exhaustionObserved, cooldown>>

\* The frames since the last relocalisation: how many had a good verdict (good), and
\* whether ten of them in a row have gone by (streak = KEYFRAME_DELAY), both counted up to
\* KEYFRAME_DELAY. Before any relocalisation nothing is owed.
CooldownAfter(c, result, recovered) ==
  IF recovered THEN [recovered |-> TRUE, good |-> 0, streak |-> 0]
  ELSE IF result = TRACKING_GOOD
  THEN [c EXCEPT !.good = IF @ < KEYFRAME_DELAY THEN @ + 1 ELSE @,
                 !.streak = IF @ < KEYFRAME_DELAY THEN @ + 1 ELSE @]
  ELSE [c EXCEPT !.streak = IF @ < KEYFRAME_DELAY THEN 0 ELSE @]

\* run() on one frame, in a session of at most maxFused fused frames, with the history
\* (cooldown, and the nearest neighbour of every frame) kept in full or not.
RunFrame(maxFused, history) ==
  /\ HasMoreImages(imageSource)
  /\ fusedFramesCount < maxFused
  /\ \E o \in Observed(history,
                       TrackAndResolve(behaviourOnFailure, fusedFramesCount, pose_d,
                                       trackerResult, keyframeDelay, keyframes, poseDatabase)) :
     \E lost \in LostTracking(o.effective, fusedFramesCount) :
     \E src \in AfterGetImages :
       LET oldPose == pose_d
           runFusion == RunFusion(fusionEnabled, o.effective, fusedFramesCount, lost)
       IN /\ fusedFramesCount' = CountAfter(runFusion, fusedFramesCount)
          /\ scene' = SceneAfter(runFusion, scene)
          /\ pose_d' = PoseAfter(runFusion, o.effective, oldPose, o.pose)
          /\ trackerResult' = o.stored
          /\ keyframeDelay' = o.delay
          /\ keyframes' = o.ids
          /\ poseDatabase' = o.db
          /\ imageSource' = src
          /\ fusionEnabled' = FusionEnabledAfter(fusionEnabled, src)
          /\ exhaustionObserved' = (exhaustionObserved \/ ~CurrentSubengineHasMoreImages(src))
          /\ cooldown' = IF history THEN CooldownAfter(cooldown, o.rawResult, o.recovered)
                                     ELSE cooldown
          /\ last' = [op |-> "run", ret |-> TRUE, rawResult |-> o.rawResult,
                      effective |-> o.effective, trackedPose |-> o.pose,
                      considerKeyframe |-> o.considerKeyframe, keyframeID |-> o.keyframeID,
                      nearestNeighbour |-> o.nearestNeighbour, recovered |-> o.recovered,
                      lost |-> lost, runFusion |-> runFusion,
                      calls |-> <<"getImages", "UpdateView">> \o o.calls
                                \o OutcomeCalls(runFusion, o.effective) \o <<"Prepare">>]
          /\ UNCHANGED behaviourOnFailure

\* set_fusion_enabled(fusionEnabled)
SetFusionEnabled ==
  \E b \in BOOLEAN :
    /\ fusionEnabled' = b
    /\ last' = NoCall("set_fusion_enabled", FALSE)
    /\ UNCHANGED <<behaviourOnFailure, fusedFramesCount, keyframeDelay, pose_d,
                   trackerResult, imageSource, keyframes, poseDatabase, scene,
                   exhaustionObserved, cooldown>>

Next == RunNoImages \/ RunFrame(MaxFused, FALSE) \/ SetFusionEnabled

NextShort == RunNoImages \/ RunFrame(MaxFusedShort, FALSE) \/ SetFusionEnabled

NextCooldown == RunNoImages \/ RunFrame(MaxFusedShort, TRUE) \/ SetFusionEnabled

\* Sessions long enough to leave the warm start.
Spec == Init /\ [][Next]_vars

\* Sessions of a few fused frames and any number of frames that are not fused.
SpecShort == Init /\ [][NextShort]_vars

\* Short sessions under the relocalising failure mode, with the frames since the last
\* relocalisation counted.
InitRelocalise == Init /\ behaviourOnFailure = FAILUREMODE_RELOCALISE

SpecCooldown == InitRelocalise /\ [][NextCooldown]_vars

\* run() on a frame that the tracker tracks well (or, before anything is fused, whose
\* verdict is still the initial good one).
GoodFrame == RunFrame(MaxFusedShort, TRUE) /\ last'.rawResult = TRACKING_GOOD

\* The sessions of SpecCooldown in which frames keep arriving and keep being tracked well
\* for as long as the session lasts.
SpecCooldownFair == SpecCooldown /\ WF_vars(GoodFrame)

TypeOK ==
  /\ behaviourOnFailure \in FailureMode
  /\ fusedFramesCount \in 0..MaxFused
  /\ fusionEnabled \in BOOLEAN
  /\ keyframeDelay \in 0..KEYFRAME_DELAY
  /\ pose_d \in Poses
  /\ trackerResult \in TrackingResult
  /\ imageSource \in {"more", "next", "done"}
  /\ keyframes \subseteq 0..(MaxKeyframes - 1)
  /\ DOMAIN poseDatabase \subseteq 0..(MaxKeyframes - 1)
  /\ scene \in 0..MaxFused

(* ------------------------------ properties ----------------------------- *)

\* The step is a run() call that processed a frame.
FrameProcessed == last'.op = "run" /\ last'.ret

\* C1. Rollback law: a run() call that returns true with effective verdict FAILED and
\* without fusing leaves the pose as it was before the call, also when the relocalisation
\* overwrote it with a keyframe pose and tracked again.
C1_RollbackLaw ==
  [][(FrameProcessed /\ last'.effective = TRACKING_FAILED /\ ~last'.runFusion)
       => pose_d' = pose_d]_vars

\* A frame whose relocalisation ended FAILED, after the second track had moved the pose.
C1_Witness ==
  /\ last.op = "run" /\ last.ret
  /\ last.recovered /\ last.effective = TRACKING_FAILED /\ ~last.runFusion
  /\ last.trackedPose # pose_d

\* C2. fusedFramesCount never decreases; only run() changes it, by +1, exactly when the
\* gate let the frame be fused and the dense mapper fused it; it is the number of fused
\* frames in the scene.
C2_CountsFusedFrames ==
  [][/\ fusedFramesCount' >= fusedFramesCount
     /\ fusedFramesCount' # fusedFramesCount
          => FrameProcessed /\ fusedFramesCount' = fusedFramesCount + 1
     /\ FrameProcessed
          => /\ last'.runFusion <=> fusedFramesCount' = fusedFramesCount + 1
             /\ last'.runFusion <=> Invoked(last'.calls, "DenseMapper.ProcessFrame")
     /\ fusedFramesCount' = scene']_vars

\* The second frame is fused, by the call that sees the sub-stream exhausted.
C2_Witness ==
  /\ last.op = "run" /\ last.runFusion
  /\ fusedFramesCount = 2 /\ scene = 2
  /\ ~fusionEnabled

\* C3 as claimed: in every run() call that processes a frame after a run() has seen the
\* active sub-stream exhausted, FusionEnabled is false and the frame is not fused, whatever
\* set_fusion_enabled calls were made.
C3_OneWayForever ==
  [][(exhaustionObserved /\ FrameProcessed)
       => ~fusionEnabled /\ ~fusionEnabled' /\ ~last'.runFusion]_vars

\* C3 as amended: a run() call that sees the active sub-stream exhausted returns with
\* FusionEnabled false; after that only set_fusion_enabled makes it true again, and while
\* it is false no frame is fused.
C3_DisabledUntilSet ==
  [][/\ (FrameProcessed /\ ~CurrentSubengineHasMoreImages(imageSource')) => ~fusionEnabled'
     /\ (exhaustionObserved /\ ~fusionEnabled /\ fusionEnabled')
          => last'.op = "set_fusion_enabled"
     /\ (exhaustionObserved /\ ~fusionEnabled /\ last'.op = "run")
          => ~last'.runFusion /\ ~fusionEnabled']_vars

\* A frame of a later sub-stream is processed, unfused, with the flag still false.
C3_Witness ==
  /\ exhaustionObserved /\ imageSource = "more"
  /\ last.op = "run" /\ last.ret
  /\ ~fusionEnabled /\ ~last.runFusion

\* C4. run() returns false exactly when the image source has no more images at entry;
\* then nothing changes and no collaborator is called. Otherwise it returns true after
\* one frame: one getImages, at most one fusion, and the final Prepare.
C4_NoImagesNoOp ==
  [][last'.op = "run"
       => /\ last'.ret <=> HasMoreImages(imageSource)
          /\ ~last'.ret
               => /\ UNCHANGED <<behaviourOnFailure, fusedFramesCount, fusionEnabled,
                                 keyframeDelay, pose_d, trackerResult, imageSource,
                                 keyframes, poseDatabase, scene>>
                  /\ last'.calls = <<>>
          /\ last'.ret
               => /\ Cardinality({i \in DOMAIN last'.calls : last'.calls[i] = "getImages"}) = 1
                  /\ Cardinality({i \in DOMAIN last'.calls :
                                    last'.calls[i] = "DenseMapper.ProcessFrame"}) <= 1
                  /\ last'.calls[Len(last'.calls)] = "Prepare"]_vars

\* run() returns false in a session that has fused frames and holds a keyframe.
C4_Witness ==
  /\ last.op = "run" /\ ~last.ret
  /\ fusedFramesCount > 0 /\ keyframes # {}

\* C5. Under the relocalising failure mode a new keyframe (and its stored pose) is only
\* produced by a frame whose effective verdict is GOOD.
C5_KeyframeOnlyWhenGood ==
  (last.op = "run" /\ last.keyframeID >= 0)
    => /\ behaviourOnFailure = FAILUREMODE_RELOCALISE
       /\ last.effective = TRACKING_GOOD
       /\ last.considerKeyframe
       /\ last.keyframeID \in DOMAIN poseDatabase

\* A tracked frame becomes a keyframe.
C5_Witness ==
  /\ last.op = "run" /\ last.keyframeID >= 0
  /\ Invoked(last.calls, "Track")

\* C6 as claimed: a relocalisation leaves keyframeDelay at 10, and a later frame is only
\* considered as a keyframe once ten GOOD frames in a row have gone by since then.
C6_TenGoodInARow ==
  [][FrameProcessed
       => /\ last'.recovered => keyframeDelay' = KEYFRAME_DELAY
          /\ last'.considerKeyframe => cooldown.streak = KEYFRAME_DELAY]_vars

\* C6 as amended: a relocalisation leaves keyframeDelay at 10, whatever it was and whatever
\* the second track's verdict, and a later frame is only considered as a keyframe once ten
\* GOOD frames, in a row or not, have gone by since then; keyframeDelay is what is left of
\* the ten.
C6_TenGoodFrames ==
  [][FrameProcessed
       => /\ last'.recovered => keyframeDelay' = KEYFRAME_DELAY
          /\ last'.considerKeyframe => cooldown.good = KEYFRAME_DELAY
          /\ keyframeDelay' = KEYFRAME_DELAY - cooldown'.good]_vars

\* A frame is considered as a keyframe again after a relocalisation.
C6_Witness ==
  /\ cooldown.recovered /\ cooldown.good = KEYFRAME_DELAY
  /\ last.op = "run" /\ last.considerKeyframe

\* C7. Fusion gate: a processed frame is fused exactly when FusionEnabled is true at the
\* gate, the effective verdict is not FAILED, it is not POOR unless fewer than
\* initialFramesToFuse frames have been fused, and the tracker does not report lost tracking.
C7_FusionGate ==
  [][FrameProcessed
       => (last'.runFusion
             <=> /\ fusionEnabled
                 /\ last'.effective # TRACKING_FAILED
                 /\ (last'.effective # TRACKING_POOR \/ fusedFramesCount < initialFramesToFuse)
                 /\ ~last'.lost)]_vars

\* After the warm start a POOR frame is denied fusion with the flag set and tracking not lost.
C7_Witness ==
  /\ last.op = "run" /\ last.ret
  /\ fusedFramesCount >= initialFramesToFuse
  /\ last.effective = TRACKING_POOR /\ ~last.lost /\ fusionEnabled
  /\ ~last.runFusion

\* C8. Keyframe/pose consistency: the pose database holds a pose for exactly the keyframe
\* ids the relocaliser has assigned, and a relocalisation retrieves the pose of an id that
\* has one.
C8_KeyframePoseConsistency ==
  /\ DOMAIN poseDatabase = keyframes
  /\ \A id \in keyframes : poseDatabase[id] \in Poses
  /\ last.recovered => last.nearestNeighbour \in DOMAIN poseDatabase

\* A relocalisation retrieves the pose of a keyframe.
C8_Witness ==
  /\ last.op = "run" /\ last.recovered
  /\ last.nearestNeighbour \in keyframes

\* C9. After a run() call that returns true the pose is the one the last track of the call
\* left (the second one, after a relocalisation), or the pose held before the call: the
\* latter whenever the effective verdict is FAILED or nothing was tracked, the former
\* otherwise. A keyframe pose written by a relocalisation whose track FAILED is not kept.
C9_PoseProvenance ==
  [][FrameProcessed
       => /\ last'.effective = TRACKING_FAILED => pose_d' = pose_d
          /\ last'.effective # TRACKING_FAILED => pose_d' = last'.trackedPose
          /\ ~Invoked(last'.calls, "Track") => pose_d' = pose_d]_vars

\* A relocalisation fails and the pose kept is not the keyframe's.
C9_Witness ==
  /\ last.op = "run" /\ last.ret
  /\ last.recovered /\ last.effective = TRACKING_FAILED
  /\ poseDatabase[last.nearestNeighbour] # pose_d

\* C10. run() changes FusionEnabled only from true to false, and only in a call that
\* processed a frame and found the current sub-stream exhausted: a gate that denies fusion
\* leaves the flag alone, and run() never sets it.
C10_FlagOnlyClearedAtExhaustion ==
  [][last'.op = "run"
       => fusionEnabled'
            = (fusionEnabled
                 /\ (last'.ret => CurrentSubengineHasMoreImages(imageSource')))]_vars

\* The gate denies fusion for lost tracking and the flag stays set.
C10_Witness ==
  /\ last.op = "run" /\ last.ret
  /\ last.lost /\ ~last.runFusion
  /\ fusionEnabled

\* C11. A run() call that processes a frame applies exactly one of three outcomes: the
\* dense mapper fuses the frame (exactly when the gate permits), or it only updates the
\* visible list (the gate denies and the effective verdict is not FAILED, also when only
\* the flag or lost tracking denies), or the pose is rolled back (effective verdict
\* FAILED); a frame that may not be fused is not fused and leaves the scene as it was.
C11_OneOutcome ==
  [][FrameProcessed
       => LET fused == Invoked(last'.calls, "DenseMapper.ProcessFrame")
              updated == Invoked(last'.calls, "DenseMapper.UpdateVisibleList")
              failed == last'.effective = TRACKING_FAILED
          IN /\ fused <=> last'.runFusion
             /\ updated <=> (~last'.runFusion /\ ~failed)
             /\ (~fused /\ ~updated) <=> failed
             /\ ~(fused /\ updated)
             /\ failed => pose_d' = pose_d
             /\ ~failed => pose_d' = last'.trackedPose
             /\ ~last'.runFusion => scene' = scene /\ fusedFramesCount' = fusedFramesCount
             /\ fused => scene' = scene + 1]_vars

\* A well-tracked frame that only the cleared flag keeps from being fused takes the
\* visibility-update path.
C11_Witness ==
  /\ last.op = "run" /\ last.ret
  /\ last.effective = TRACKING_GOOD /\ ~last.lost /\ ~last.runFusion
  /\ Invoked(last.calls, "Track")
  /\ Invoked(last.calls, "DenseMapper.UpdateVisibleList")
  /\ scene = 1

\* The calls of a relocalisation, from the relocaliser's answer on.
RecoverySteps ==
  <<"Relocaliser.ProcessFrame", "PoseDatabase.retrievePose",
    "DenseMapper.UpdateVisibleList(reset)", "Prepare", "Track">>

\* C12. Under the relocalising failure mode a run() call relocalises exactly when the
\* relocaliser returned no new keyframe id, the tracker's verdict is FAILED and there is a
\* nearest neighbour; it then, in this order, retrieves the neighbour's pose from the pose
\* database, updates the visible list with a reset, prepares the tracker and tracks again;
\* the second track's verdict is the frame's effective verdict and decides the frame's
\* fusion gate, and keyframeDelay becomes 10.
C12_RecoveryTrigger ==
  [][(FrameProcessed /\ behaviourOnFailure = FAILUREMODE_RELOCALISE)
       => /\ last'.recovered
               <=> /\ last'.keyframeID = NO_KEYFRAME
                   /\ last'.rawResult = TRACKING_FAILED
                   /\ last'.nearestNeighbour # NO_KEYFRAME
          /\ last'.recovered
               => /\ last'.nearestNeighbour \in DOMAIN poseDatabase
                  /\ \E i \in DOMAIN last'.calls :
                        /\ SubSeq(last'.calls, i, i + Len(RecoverySteps) - 1) = RecoverySteps
                        /\ \A j \in 1..(i - 1) : last'.calls[j] # "PoseDatabase.retrievePose"
                  /\ last'.effective = trackerResult'
                  /\ last'.runFusion
                       <=> /\ fusionEnabled
                           /\ last'.effective = TRACKING_GOOD
                                \/ (last'.effective = TRACKING_POOR
                                      /\ fusedFramesCount < initialFramesToFuse)
                           /\ ~last'.lost
                  /\ keyframeDelay' = KEYFRAME_DELAY
          /\ ~last'.recovered
               => /\ ~Invoked(last'.calls, "PoseDatabase.retrievePose")
                  /\ ~Invoked(last'.calls, "DenseMapper.UpdateVisibleList(reset)")
                  /\ last'.effective = last'.rawResult]_vars

\* A frame whose tracking failed is relocalised, tracked well from the keyframe's pose and
\* fused in the same call.
C12_Witness ==
  /\ last.op = "run" /\ last.recovered
  /\ last.rawResult = TRACKING_FAILED /\ last.effective = TRACKING_GOOD
  /\ last.runFusion /\ keyframeDelay = KEYFRAME_DELAY

\* C13. A run() call entered with fusedFramesCount = 0 does not track, under any failure
\* mode and not through a relocalisation either: the pose and the verdict the failure mode
\* works on are those the previous call (or the constructor) left.
C13_NoTrackBeforeFirstFusion ==
  [][(FrameProcessed /\ fusedFramesCount = 0)
       => /\ ~Invoked(last'.calls, "Track")
          /\ ~last'.recovered
          /\ last'.rawResult = trackerResult
          /\ last'.trackedPose = pose_d
          /\ trackerResult' = trackerResult
          /\ pose_d' = pose_d]_vars

\* Before anything is fused a frame is processed under the relocalising failure mode with
\* a keyframe in the relocaliser, so that only the verdict keeps it from relocalising.
C13_Witness ==
  /\ last.op = "run" /\ last.ret
  /\ fusedFramesCount = 0 /\ scene = 0
  /\ behaviourOnFailure = FAILUREMODE_RELOCALISE
  /\ keyframes # {} /\ last.keyframeID = NO_KEYFRAME
  /\ ~Invoked(last.calls, "Track")

\* C14. Under the stop-integration failure mode the effective verdict is the tracker's,
\* except that FAILED becomes POOR: it is never FAILED, the pose is never rolled back, and
\* every processed frame is fused or takes the visibility-update path; a frame whose
\* tracking failed is still fused while fewer than initialFramesToFuse frames have been
\* fused, the flag is set and tracking is not lost.
C14_StopIntegrationDowngrades ==
  [][(FrameProcessed /\ behaviourOnFailure = FAILUREMODE_STOP_INTEGRATION)
       => /\ last'.effective
               = (IF last'.rawResult = TRACKING_FAILED THEN TRACKING_POOR ELSE last'.rawResult)
          /\ last'.effective # TRACKING_FAILED
          /\ trackerResult' = last'.rawResult
          /\ pose_d' = last'.trackedPose
          /\ Invoked(last'.calls, "DenseMapper.ProcessFrame")
               # Invoked(last'.calls, "DenseMapper.UpdateVisibleList")
          /\ (/\ last'.rawResult = TRACKING_FAILED
              /\ fusedFramesCount < initialFramesToFuse
              /\ fusionEnabled /\ ~last'.lost)
               => /\ Invoked(last'.calls, "DenseMapper.ProcessFrame")
                  /\ fusedFramesCount' = fusedFramesCount + 1]_vars

\* The last frame of the warm start is one whose tracking failed: it is fused and the moved
\* pose is kept.
C14_Witness ==
  /\ last.op = "run" /\ last.ret
  /\ behaviourOnFailure = FAILUREMODE_STOP_INTEGRATION
  /\ last.rawResult = TRACKING_FAILED /\ last.effective = TRACKING_POOR
  /\ last.runFusion /\ fusedFramesCount = initialFramesToFuse
  /\ pose_d = last.trackedPose

\* C15. Under the ignoring failure mode the effective verdict is GOOD whatever the tracker
\* said, so with the flag set and tracking not lost every processed frame is fused and
\* fusedFramesCount grows by exactly 1, whatever its value; from 0 it becomes 1.
C15_IgnoreAlwaysFuses ==
  [][(FrameProcessed /\ behaviourOnFailure = FAILUREMODE_IGNORE)
       => /\ last'.effective = TRACKING_GOOD
          /\ (fusionEnabled /\ ~last'.lost)
               => /\ last'.runFusion
                  /\ Invoked(last'.calls, "DenseMapper.ProcessFrame")
                  /\ fusedFramesCount' = fusedFramesCount + 1
                  /\ scene' = scene + 1
                  /\ fusedFramesCount = 0 => fusedFramesCount' = 1]_vars

\* After the warm start a frame whose tracking failed is fused all the same.
C15_Witness ==
  /\ last.op = "run" /\ last.ret
  /\ behaviourOnFailure = FAILUREMODE_IGNORE
  /\ last.rawResult = TRACKING_FAILED /\ last.effective = TRACKING_GOOD
  /\ last.runFusion /\ fusedFramesCount > initialFramesToFuse

\* C16. Warm start: a frame whose effective verdict is POOR is fused only while fewer than
\* initialFramesToFuse frames have been fused (and then it is, unless the flag or lost
\* tracking denies it); once fusedFramesCount has reached initialFramesToFuse it stays
\* there or above, and every later POOR frame is denied fusion, takes the
\* visibility-update path and leaves fusedFramesCount as it is.
C16_WarmStart ==
  [][/\ fusedFramesCount >= initialFramesToFuse => fusedFramesCount' >= initialFramesToFuse
     /\ (FrameProcessed /\ last'.effective = TRACKING_POOR)
          => /\ last'.runFusion => fusedFramesCount < initialFramesToFuse
             /\ (fusedFramesCount < initialFramesToFuse /\ fusionEnabled /\ ~last'.lost)
                  => last'.runFusion /\ fusedFramesCount' = fusedFramesCount + 1
             /\ fusedFramesCount >= initialFramesToFuse
                  => /\ ~last'.runFusion
                     /\ ~Invoked(last'.calls, "DenseMapper.ProcessFrame")
                     /\ Invoked(last'.calls, "DenseMapper.UpdateVisibleList")
                     /\ fusedFramesCount' = fusedFramesCount
                     /\ scene' = scene
                     /\ pose_d' = last'.trackedPose]_vars

\* Right after the warm start a frame whose tracking failed is, under the stop-integration
\* failure mode, treated as POOR and not fused.
C16_Witness ==
  /\ last.op = "run" /\ last.ret
  /\ fusedFramesCount = initialFramesToFuse /\ scene = initialFramesToFuse
  /\ last.rawResult = TRACKING_FAILED /\ last.effective = TRACKING_POOR
  /\ ~last.runFusion /\ fusionEnabled
  /\ Invoked(last.calls, "DenseMapper.UpdateVisibleList")

\* C17. keyframeDelay starts at 0 and stays within 0..10: it goes down by exactly 1 on a
\* frame of the relocalising failure mode whose tracker verdict is GOOD while it is
\* positive, becomes 10 on a relocalisation, and is left alone by every other frame, by
\* the other failure modes and by every other call.
C17_KeyframeDelayLaw ==
  /\ keyframeDelay = 0
  /\ [][LET countedDown == /\ FrameProcessed
                            /\ behaviourOnFailure = FAILUREMODE_RELOCALISE
                            /\ last'.rawResult = TRACKING_GOOD
                            /\ keyframeDelay > 0
             relocalised == FrameProcessed /\ last'.recovered
         IN /\ keyframeDelay' \in 0..KEYFRAME_DELAY
            /\ ~(countedDown /\ relocalised)
            /\ relocalised => behaviourOnFailure = FAILUREMODE_RELOCALISE
            /\ keyframeDelay' = IF relocalised THEN KEYFRAME_DELAY
                                 ELSE IF countedDown THEN keyframeDelay - 1
                                 ELSE keyframeDelay]_vars

\* The frame that counts the delay of a relocalisation down to 0.
C17_Witness ==
  /\ last.op = "run" /\ last.ret
  /\ behaviourOnFailure = FAILUREMODE_RELOCALISE
  /\ last.rawResult = TRACKING_GOOD /\ ~last.considerKeyframe
  /\ keyframeDelay = 0

\* C18. The pose stored in the pose database for a new keyframe is the session's pose when
\* that run() call returns: the frame that creates a keyframe is neither relocalised nor
\* rolled back in the same call, and the poses of the other keyframes are left alone.
C18_KeyframePoseIsSessionPose ==
  [][(FrameProcessed /\ last'.keyframeID >= 0)
       => /\ last'.keyframeID \in DOMAIN poseDatabase' \ DOMAIN poseDatabase
          /\ poseDatabase'[last'.keyframeID] = pose_d'
          /\ pose_d' = last'.trackedPose
          /\ last'.effective # TRACKING_FAILED
          /\ ~last'.recovered
          /\ ~Invoked(last'.calls, "PoseDatabase.retrievePose")
          /\ \A id \in DOMAIN poseDatabase : poseDatabase'[id] = poseDatabase[id]]_vars

\* A tracked frame that is not fused becomes a keyframe with the pose the tracker moved to.
C18_Witness ==
  /\ last.op = "run" /\ last.keyframeID >= 0
  /\ Invoked(last.calls, "Track") /\ ~last.runFusion
  /\ poseDatabase[last.keyframeID] = pose_d /\ pose_d = MaxPose

\* How often the call named c was made.
Times(calls, c) == Cardinality({i \in DOMAIN calls : calls[i] = c})

\* C19. Within one run() call creating a keyframe and relocalising exclude each other: a
\* frame that is relocalised was handed to the relocaliser as no keyframe candidate, has no
\* pose stored and creates no keyframe, also when the second track's verdict is GOOD; under
\* the relocalising failure mode the relocaliser is asked exactly once per processed frame.
C19_KeyframeOrRecovery ==
  [][FrameProcessed
       => /\ ~(last'.keyframeID >= 0 /\ last'.recovered)
          /\ ~(Invoked(last'.calls, "PoseDatabase.storePose")
                 /\ Invoked(last'.calls, "PoseDatabase.retrievePose"))
          /\ last'.recovered
               => /\ ~last'.considerKeyframe
                  /\ last'.keyframeID = NO_KEYFRAME
                  /\ ~Invoked(last'.calls, "PoseDatabase.storePose")
                  /\ poseDatabase' = poseDatabase
                  /\ keyframes' = keyframes
          /\ Times(last'.calls, "Relocaliser.ProcessFrame")
               = (IF behaviourOnFailure = FAILUREMODE_RELOCALISE THEN 1 ELSE 0)]_vars

\* With no delay pending a frame is relocalised and tracked well, and is no keyframe.
C19_Witness ==
  /\ last.op = "run" /\ last.recovered
  /\ last.effective = TRACKING_GOOD /\ ~last.considerKeyframe
  /\ last.keyframeID = NO_KEYFRAME
  /\ Times(last.calls, "Relocaliser.ProcessFrame") = 1
  /\ Cardinality(keyframes) = 1

\* No further frame will be processed: the image source is empty or the session is over.
SessionOver == ~HasMoreImages(imageSource) \/ fusedFramesCount >= MaxFusedShort

\* C20. Under the relocalising failure mode, when frames keep arriving and being tracked
\* well, the delay a relocalisation sets does not block keyframe candidacy for ever: it is
\* what is left of ten GOOD frames, a frame is considered again only after exactly ten of
\* them, and unless relocalisations keep happening or the session ends, GOOD frames are
\* considered as keyframes again.
C20_CooldownEnds ==
  /\ [](cooldown.recovered => keyframeDelay = KEYFRAME_DELAY - cooldown.good)
  /\ []((cooldown.recovered /\ last.op = "run" /\ last.considerKeyframe)
          => cooldown.good = KEYFRAME_DELAY /\ last.rawResult = TRACKING_GOOD)
  /\ []<>(\/ last.op = "run" /\ last.considerKeyframe
          \/ last.op = "run" /\ last.recovered
          \/ SessionOver)

\* Ten GOOD frames in a row after a relocalisation, and the next one is considered.
C20_Witness ==
  /\ cooldown.recovered /\ cooldown.streak = KEYFRAME_DELAY
  /\ keyframeDelay = 0
  /\ last.op = "run" /\ last.rawResult = TRACKING_GOOD /\ last.considerKeyframe
  /\ ~SessionOver

====
